---------------------------- MODULE Spec2Model ----------------------------
(* A model of the DNS wire-format codec of barthez: the Header decoder      *)
(* (src/src/header.rs), the RecordType conversions and the Record codec      *)
(* (src/src/record.rs), running over the PacketBuffer cursor.  PacketBuffer  *)
(* itself is defined in a file that is not part of src/; its operations are   *)
(* modelled from the contract in spec.md section 4.1.                          *)
EXTENDS Integers, Sequences, FiniteSets, TLC

VARIABLES
    bytes,      \* PacketBuffer: the byte array (its length is the capacity)
    pos,        \* PacketBuffer: the read/write position
    last,       \* the last call made on the buffer and what it returned
    written,    \* the last Record::write that succeeded: the record and where it started
    nwrites,    \* number of Record::write calls made so far
    conv        \* the RecordType conversion being carried out

vars == <<bytes, pos, last, written, nwrites, conv>>

(***************************************************************************)
(* Bounds of the model.                                                    *)
(***************************************************************************)
\* capacity of the buffer
Cap == 32
\* longest name (in bytes, separators included) handed to Record::write
MaxNameLen == 3
\* largest small value of the declared payload length in the input buffers
MaxLenField == 6
\* Record::write calls per behaviour
MaxWrites == 1

(***************************************************************************)
(* Integer helpers: the bit operations of the source, computed bit by bit.  *)
(***************************************************************************)
RECURSIVE BitAnd(_, _)
BitAnd(a, b) ==
    IF a = 0 \/ b = 0 THEN 0
    ELSE (a % 2) * (b % 2) + 2 * BitAnd(a \div 2, b \div 2)

RECURSIVE Pow2(_)
Pow2(n) == IF n = 0 THEN 1 ELSE 2 * Pow2(n - 1)

Shr(a, n) == a \div Pow2(n)

Bit(b, n) == (b \div Pow2(n)) % 2

U8 == 0..255
DOT == 46

(***************************************************************************)
(* Results of the buffer operations (crate::result::Result).               *)
(***************************************************************************)
Ok(v, b) == [ok |-> TRUE, err |-> "None", val |-> v, buf |-> b]
Err(e, b) == [ok |-> FALSE, err |-> e, val |-> 0, buf |-> b]

(***************************************************************************)
(* PacketBuffer (spec.md 4.1).  A buffer is [bytes, pos]; offsets are      *)
(* 0-based, so the byte at offset p is bytes[p + 1].                       *)
(***************************************************************************)
Capacity(b) == Len(b.bytes)

buf_pos(b) == b.pos

read_u8(b) ==
    IF b.pos + 1 > Capacity(b) THEN Err("OutOfBounds", b)
    ELSE Ok(b.bytes[b.pos + 1], [b EXCEPT !.pos = @ + 1])

read_u16(b) ==
    IF b.pos + 2 > Capacity(b) THEN Err("OutOfBounds", b)
    ELSE Ok(b.bytes[b.pos + 1] * 256 + b.bytes[b.pos + 2], [b EXCEPT !.pos = @ + 2])

\* A u32 is held as its two 16-bit halves <<high, low>>: TLC's integers are
\* 32-bit signed and cannot hold the upper half of the u32 range.
read_u32(b) ==
    IF b.pos + 4 > Capacity(b) THEN Err("OutOfBounds", b)
    ELSE Ok(<<b.bytes[b.pos + 1] * 256 + b.bytes[b.pos + 2],
              b.bytes[b.pos + 3] * 256 + b.bytes[b.pos + 4]>>,
            [b EXCEPT !.pos = @ + 4])

step(b, n) ==
    IF b.pos + n > Capacity(b) THEN Err("OutOfBounds", b)
    ELSE Ok(0, [b EXCEPT !.pos = @ + n])

write_u8(b, v) ==
    IF b.pos + 1 > Capacity(b) THEN Err("OutOfBounds", b)
    ELSE Ok(0, [bytes |-> [b.bytes EXCEPT ![b.pos + 1] = v % 256], pos |-> b.pos + 1])

write_u16(b, v) ==
    IF b.pos + 2 > Capacity(b) THEN Err("OutOfBounds", b)
    ELSE Ok(0, [bytes |-> [b.bytes EXCEPT ![b.pos + 1] = (v \div 256) % 256,
                                          ![b.pos + 2] = v % 256],
                pos |-> b.pos + 2])

write_u32(b, v) ==
    IF b.pos + 4 > Capacity(b) THEN Err("OutOfBounds", b)
    ELSE Ok(0, [bytes |-> [b.bytes EXCEPT ![b.pos + 1] = (v[1] \div 256) % 256,
                                          ![b.pos + 2] = v[1] % 256,
                                          ![b.pos + 3] = (v[2] \div 256) % 256,
                                          ![b.pos + 4] = v[2] % 256],
                pos |-> b.pos + 4])

\* read_qname: the decoding cursor d walks labels and follows pointers; the
\* real position ends after the name, or after the first pointer once one was
\* followed.  An offset at which a length byte was already read is a cycle.
RECURSIVE QnameLoop(_, _, _, _, _, _)
QnameLoop(b, d, jumped, realEnd, visited, name) ==
    IF d \in visited THEN Err("MalformedName", b)
    ELSE IF d + 1 > Capacity(b) THEN
        Err(IF jumped THEN "MalformedName" ELSE "OutOfBounds", b)
    ELSE LET len == b.bytes[d + 1] IN
        IF BitAnd(len, 192) = 192 THEN
            IF d + 2 > Capacity(b) THEN Err("OutOfBounds", b)
            ELSE QnameLoop(b, (len - 192) * 256 + b.bytes[d + 2], TRUE,
                           IF jumped THEN realEnd ELSE d + 2,
                           visited \cup {d}, name)
        ELSE IF len = 0 THEN
            Ok(name, [b EXCEPT !.pos = IF jumped THEN realEnd ELSE d + 1])
        ELSE IF d + 1 + len > Capacity(b) THEN Err("OutOfBounds", b)
        ELSE QnameLoop(b, d + 1 + len, jumped, realEnd, visited \cup {d},
                       (IF name = <<>> THEN <<>> ELSE name \o <<DOT>>)
                           \o SubSeq(b.bytes, d + 2, d + 1 + len))

read_qname(b) == QnameLoop(b, b.pos, FALSE, b.pos, {}, <<>>)

\* str::split on the label separator: "" gives one empty label, "a." gives
\* "a" and an empty label.
RECURSIVE SplitName(_, _, _)
SplitName(s, cur, acc) ==
    IF s = <<>> THEN Append(acc, cur)
    ELSE IF Head(s) = DOT THEN SplitName(Tail(s), <<>>, Append(acc, cur))
    ELSE SplitName(Tail(s), Append(cur, Head(s)), acc)

RECURSIVE WriteBytes(_, _)
WriteBytes(b, s) ==
    IF s = <<>> THEN Ok(0, b)
    ELSE LET w == write_u8(b, Head(s)) IN
         IF ~w.ok THEN w ELSE WriteBytes(w.buf, Tail(s))

RECURSIVE WriteLabels(_, _)
WriteLabels(b, ls) ==
    IF ls = <<>> THEN write_u8(b, 0)
    ELSE LET l == write_u8(b, Len(Head(ls))) IN
         IF ~l.ok THEN l
         ELSE LET w == WriteBytes(l.buf, Head(ls)) IN
              IF ~w.ok THEN w ELSE WriteLabels(w.buf, Tail(ls))

write_qname(b, name) == WriteLabels(b, SplitName(name, <<>>, <<>>))

(***************************************************************************)
(* Header (src/src/header.rs).                                             *)
(***************************************************************************)
NoHeader ==
    [id |-> 0, is_response |-> FALSE, op_code |-> 0, is_authoritative |-> FALSE,
     is_truncated |-> FALSE, recursion_desired |-> FALSE,
     recursion_available |-> FALSE, z |-> 0, response_code |-> 0,
     question_count |-> 0, answer_count |-> 0, authority_count |-> 0,
     additional_count |-> 0]

\* What a decode returns: res, the error, the value, the buffer afterwards, and
\* how many buffer reads it made.
HdrErr(e, b, n) == [res |-> "Err", err |-> e, hdr |-> NoHeader, buf |-> b, reads |-> n]

\* header.rs lines 91-129: the reads after the position guard.  response_code
\* holds the 4-bit number handed to ResultCode::from.
HeaderRead(buffer) ==
    LET id == read_u16(buffer) IN
    IF ~id.ok THEN HdrErr(id.err, id.buf, 1) ELSE
    LET b1 == read_u8(id.buf) IN
    IF ~b1.ok THEN HdrErr(b1.err, b1.buf, 2) ELSE
    LET b2 == read_u8(b1.buf) IN
    IF ~b2.ok THEN HdrErr(b2.err, b2.buf, 3) ELSE
    LET qc == read_u16(b2.buf) IN
    IF ~qc.ok THEN HdrErr(qc.err, qc.buf, 4) ELSE
    LET ac == read_u16(qc.buf) IN
    IF ~ac.ok THEN HdrErr(ac.err, ac.buf, 5) ELSE
    LET nc == read_u16(ac.buf) IN
    IF ~nc.ok THEN HdrErr(nc.err, nc.buf, 6) ELSE
    LET dc == read_u16(nc.buf) IN
    IF ~dc.ok THEN HdrErr(dc.err, dc.buf, 7) ELSE
    [res |-> "Ok", err |-> "None",
     hdr |-> [id |-> id.val,
              is_response |-> BitAnd(b1.val, 128) # 0,
              op_code |-> Shr(BitAnd(b1.val, 116), 3),
              is_authoritative |-> BitAnd(b1.val, 4) # 0,
              is_truncated |-> BitAnd(b1.val, 2) # 0,
              recursion_desired |-> BitAnd(b1.val, 1) # 0,
              recursion_available |-> BitAnd(b2.val, 128) # 0,
              z |-> Shr(BitAnd(b2.val, 112), 5),
              response_code |-> BitAnd(b2.val, 15),
              question_count |-> qc.val,
              answer_count |-> ac.val,
              authority_count |-> nc.val,
              additional_count |-> dc.val],
     buf |-> dc.buf, reads |-> 7]

\* C1 mutant: the position guard is missing.
HeaderTryFromNoGuard(buffer) == HeaderRead(buffer)

\* header.rs lines 85-130
HeaderTryFrom(buffer) ==
    IF buf_pos(buffer) # 0 THEN HdrErr("PacketBufferInvalidPosition", buffer, 0)
    ELSE HeaderRead(buffer)

(***************************************************************************)
(* RecordType (src/src/record.rs lines 7-29).                              *)
(***************************************************************************)
RecordTypeA == [tag |-> "A"]
RecordTypeUnknown(x) == [tag |-> "Unknown", code |-> x]

\* C2 mutant: the address kind is given the code 0.
RecordTypeToU16Zero(value) ==
    IF value.tag = "A" THEN 0 ELSE value.code

\* From<RecordType> for u16
RecordTypeToU16(value) ==
    IF value.tag = "A" THEN 1 ELSE value.code

\* C7 mutant: the catch-all loses the high byte of the code.
RecordTypeFromU16Low(value) ==
    IF value = 1 THEN RecordTypeA ELSE RecordTypeUnknown(value % 256)

\* From<u16> for RecordType
RecordTypeFromU16(value) ==
    IF value = 1 THEN RecordTypeA ELSE RecordTypeUnknown(value)

(***************************************************************************)
(* Record (src/src/record.rs).                                             *)
(***************************************************************************)
NoPreamble ==
    [name |-> <<>>, record_type |-> RecordTypeUnknown(0), class |-> 0,
     ttl |-> <<0, 0>>, len |-> 0]

NoRecord == [kind |-> "None", preamble |-> NoPreamble, addr |-> <<>>]

RecordA(preamble, addr) == [kind |-> "A", preamble |-> preamble, addr |-> addr]

RecordUnknown(preamble) == [kind |-> "Unknown", preamble |-> preamble, addr |-> <<>>]

\* What Record decode returns: res, the error, the record, the buffer
\* afterwards, the position at which the preamble ended (-1 when it was not
\* read to its end) and the first error a buffer operation returned.
RecErr(e, b) ==
    [res |-> "Err", err |-> e, rec |-> NoRecord, buf |-> b, preEnd |-> -1,
     firstErr |-> e]

\* C6 mutant: the preamble of a decoded record always declares 4 bytes.
RecordPreambleLenFour(name, record_type, class, ttl, len) ==
    [name |-> name, record_type |-> record_type, class |-> class, ttl |-> ttl,
     len |-> 4]

\* record.rs lines 154-160
RecordPreamble(name, record_type, class, ttl, len) ==
    [name |-> name, record_type |-> record_type, class |-> class, ttl |-> ttl,
     len |-> len]

\* record.rs lines 150-160: the fixed fields after the name
ReadFields(name, buffer) ==
    LET t == read_u16(buffer) IN
    IF ~t.ok THEN Err(t.err, t.buf) ELSE
    LET c == read_u16(t.buf) IN
    IF ~c.ok THEN Err(c.err, c.buf) ELSE
    LET ttl == read_u32(c.buf) IN
    IF ~ttl.ok THEN Err(ttl.err, ttl.buf) ELSE
    LET len == read_u16(ttl.buf) IN
    IF ~len.ok THEN Err(len.err, len.buf) ELSE
    Ok(RecordPreamble(name, RecordTypeFromU16(t.val), c.val, ttl.val, len.val),
       len.buf)

\* C5 mutant: a name that cannot be read is taken to be the empty name.
ReadPreambleDefaultName(buffer) ==
    LET q == read_qname(buffer) IN
    ReadFields(IF q.ok THEN q.val ELSE <<>>, q.buf)

\* record.rs lines 149-160
ReadPreamble(buffer) ==
    LET q == read_qname(buffer) IN
    IF ~q.ok THEN Err(q.err, q.buf) ELSE ReadFields(q.val, q.buf)

\* C8 mutant: the payload is skipped by moving the position directly.
DecodePayloadRawSkip(preamble, buffer) ==
    IF preamble.record_type = RecordTypeA THEN
        LET one == read_u8(buffer) IN
        IF ~one.ok THEN RecErr(one.err, one.buf) ELSE
        LET two == read_u8(one.buf) IN
        IF ~two.ok THEN RecErr(two.err, two.buf) ELSE
        LET three == read_u8(two.buf) IN
        IF ~three.ok THEN RecErr(three.err, three.buf) ELSE
        LET four == read_u8(three.buf) IN
        IF ~four.ok THEN RecErr(four.err, four.buf) ELSE
        [res |-> "Ok", err |-> "None",
         rec |-> RecordA(preamble, <<one.val, two.val, three.val, four.val>>),
         buf |-> four.buf, preEnd |-> buffer.pos, firstErr |-> "None"]
    ELSE
        [res |-> "Ok", err |-> "None", rec |-> RecordUnknown(preamble),
         buf |-> [buffer EXCEPT !.pos = @ + preamble.len],
         preEnd |-> buffer.pos, firstErr |-> "None"]

\* record.rs lines 162-177: the payload.  The Result of step is dropped
\* (line 174 has no `?`), so the Unknown record is returned whether or not
\* the step succeeded.
DecodePayload(preamble, buffer) ==
    IF preamble.record_type = RecordTypeA THEN
        LET one == read_u8(buffer) IN
        IF ~one.ok THEN RecErr(one.err, one.buf) ELSE
        LET two == read_u8(one.buf) IN
        IF ~two.ok THEN RecErr(two.err, two.buf) ELSE
        LET three == read_u8(two.buf) IN
        IF ~three.ok THEN RecErr(three.err, three.buf) ELSE
        LET four == read_u8(three.buf) IN
        IF ~four.ok THEN RecErr(four.err, four.buf) ELSE
        [res |-> "Ok", err |-> "None",
         rec |-> RecordA(preamble, <<one.val, two.val, three.val, four.val>>),
         buf |-> four.buf, preEnd |-> buffer.pos, firstErr |-> "None"]
    ELSE
        LET s == step(buffer, preamble.len) IN
        [res |-> "Ok", err |-> "None", rec |-> RecordUnknown(preamble),
         buf |-> s.buf, preEnd |-> buffer.pos, firstErr |-> s.err]

\* record.rs lines 148-178
RecordTryFrom(buffer) ==
    LET p == ReadPreamble(buffer) IN
    IF ~p.ok THEN RecErr(p.err, p.buf) ELSE DecodePayload(p.val, p.buf)

\* record.rs lines 100-122
RecordWrite(self, buffer) ==
    IF self.kind = "A" THEN
        LET n == write_qname(buffer, self.preamble.name) IN
        IF ~n.ok THEN n ELSE
        LET t == write_u16(n.buf, RecordTypeToU16(RecordTypeA)) IN
        IF ~t.ok THEN t ELSE
        LET c == write_u16(t.buf, 1) IN
        IF ~c.ok THEN c ELSE
        LET ttl == write_u32(c.buf, self.preamble.ttl) IN
        IF ~ttl.ok THEN ttl ELSE
        LET len == write_u16(ttl.buf, 4) IN
        IF ~len.ok THEN len ELSE
        LET ip0 == write_u8(len.buf, self.addr[1]) IN
        IF ~ip0.ok THEN ip0 ELSE
        LET ip1 == write_u8(ip0.buf, self.addr[2]) IN
        IF ~ip1.ok THEN ip1 ELSE
        LET ip2 == write_u8(ip1.buf, self.addr[3]) IN
        IF ~ip2.ok THEN ip2 ELSE
        write_u8(ip2.buf, self.addr[4])
    ELSE Ok(0, buffer)

(***************************************************************************)
(* The state machine: one PacketBuffer and the calls made on it.           *)
(***************************************************************************)
Buffer == [bytes |-> bytes, pos |-> pos]

NoWritten == [valid |-> FALSE, rec |-> NoRecord, start |-> 0]

NoConv == [stage |-> "idle", code |-> 0, rt |-> RecordTypeUnknown(0),
           code2 |-> 0, rt2 |-> RecordTypeUnknown(0)]

Call(op, p0, res, err, rec, hdr, preEnd, firstErr, reads) ==
    [op |-> op, pos0 |-> p0, res |-> res, err |-> err, rec |-> rec, hdr |-> hdr,
     preEnd |-> preEnd, firstErr |-> firstErr, reads |-> reads]

NoCall(op) == Call(op, 0, "None", "None", NoRecord, NoHeader, -1, "None", 0)

\* Input bytes -------------------------------------------------------------
Bytes16(n) == <<(n \div 256) % 256, n % 256>>

Bytes32(v) == Bytes16(v[1]) \o Bytes16(v[2])

Zeros == [i \in 1..Cap |-> 0]

\* s cut or zero-filled to the capacity
Pad(s) == SubSeq(s \o Zeros, 1, Cap)

\* Name fields of the input buffers, each placed at offset 0: the root name,
\* "a", a pointer to itself, two pointers to each other, a label followed by
\* a pointer back to it, a pointer to a zero byte further on, and a pointer
\* beyond the capacity.
NameFields ==
    { <<0>>, <<1, 97, 0>>, <<192, 0>>, <<192, 2, 192, 0>>, <<1, 97, 192, 0>>,
      <<192, 2>>, <<192, 255>> }

TypeCodes == {1, 2}

LenFields == (0..MaxLenField) \cup {Cap, 65535}

Fills == {0, 7}

InputBuffers ==
    { Pad(n \o Bytes16(t) \o Bytes16(1) \o Bytes32(<<0, 300>>) \o Bytes16(l)
            \o <<f, f, f, f>>) :
        n \in NameFields, t \in TypeCodes, l \in LenFields, f \in Fills }

APreamble(name, class, ttl, len) == RecordPreamble(name, RecordTypeA, class, ttl, len)

\* Records handed to Record::write in Spec
WriteInputs ==
    { RecordA(APreamble(<<97>>, 1, <<0, 300>>, 4), <<10, 0, 0, 1>>),
      RecordA(APreamble(<<>>, 3, <<65535, 65535>>, 0), <<192, 0, 2, 1>>),
      RecordUnknown(RecordPreamble(<<97>>, RecordTypeUnknown(2), 1, <<0, 300>>, 2)) }

Init ==
    /\ bytes \in InputBuffers
    /\ pos = 0
    /\ last = NoCall("init")
    /\ written = NoWritten
    /\ nwrites = 0
    /\ conv = NoConv

\* Header::try_from(&mut buffer)
HeaderDecode ==
    LET r == HeaderTryFrom(Buffer) IN
    /\ bytes' = r.buf.bytes
    /\ pos' = r.buf.pos
    /\ last' = Call("hdr", pos, r.res, r.err, NoRecord, r.hdr, -1, r.err, r.reads)
    /\ UNCHANGED <<written, nwrites, conv>>

\* Record::try_from(&mut buffer)
RecordDecode ==
    LET r == RecordTryFrom(Buffer) IN
    /\ bytes' = r.buf.bytes
    /\ pos' = r.buf.pos
    /\ last' = Call("dec", pos, r.res, r.err, r.rec, NoHeader, r.preEnd, r.firstErr, 0)
    /\ UNCHANGED <<written, nwrites, conv>>

\* record.write(&mut buffer)
DoWrite(r) ==
    LET w == RecordWrite(r, Buffer) IN
    /\ bytes' = w.buf.bytes
    /\ pos' = w.buf.pos
    /\ last' = Call("write", pos, IF w.ok THEN "Ok" ELSE "Err", w.err, r, NoHeader,
                    -1, w.err, 0)
    /\ written' = IF r.kind = "A"
                  THEN [valid |-> w.ok, rec |-> r, start |-> pos]
                  ELSE written
    /\ nwrites' = nwrites + 1
    /\ UNCHANGED conv

RecordWriteCall ==
    /\ nwrites < MaxWrites
    /\ \E r \in WriteInputs : DoWrite(r)

\* PacketBuffer constructed again over the same byte array: position 0
NewBuffer ==
    /\ pos' = 0
    /\ last' = NoCall("new")
    /\ UNCHANGED <<bytes, written, nwrites, conv>>

Next == HeaderDecode \/ RecordDecode \/ RecordWriteCall \/ NewBuffer

Spec == Init /\ [][Next]_vars

(***************************************************************************)
(* Properties of Spec.                                                     *)
(***************************************************************************)
U16At(bs, p) == bs[p + 1] * 256 + bs[p + 2]

\* Follows the length bytes and pointers of the name at offset d for at most
\* `fuel` steps, with no memory of where it has been.  Every step reads a
\* length byte at an offset below the capacity, so a walk still going after
\* more steps than there are offsets has read one offset twice.
RECURSIVE Walk(_, _, _)
Walk(bs, d, fuel) ==
    IF fuel = 0 THEN "revisits"
    ELSE IF d + 1 > Len(bs) THEN "leaves"
    ELSE IF bs[d + 1] >= 192 THEN
        IF d + 2 > Len(bs) THEN "leaves"
        ELSE Walk(bs, (bs[d + 1] - 192) * 256 + bs[d + 2], fuel - 1)
    ELSE IF bs[d + 1] = 0 THEN "ends"
    ELSE Walk(bs, d + 1 + bs[d + 1], fuel - 1)

ChainRevisits(bs, d) == Walk(bs, d, Len(bs) + 1) = "revisits"

\* C1: Header decode called at a nonzero position fails with
\* PacketBufferInvalidPosition before any read, leaving the position as it was.
C1_PositionGuard ==
    (last.op = "hdr" /\ last.pos0 # 0) =>
        /\ last.res = "Err"
        /\ last.err = "PacketBufferInvalidPosition"
        /\ last.reads = 0
        /\ pos = last.pos0

C1_Witness ==
    /\ last.op = "hdr"
    /\ last.pos0 >= 12
    /\ last.err = "PacketBufferInvalidPosition"

\* C3: Record decode returns the first error any of its buffer operations
\* returned, and no Record; in particular a record of another type than A
\* whose declared length exceeds the bytes left after the preamble gives the
\* out-of-bounds error and not an Unknown record.
C3_PropagatesFirstError ==
    last.op = "dec" =>
        /\ last.firstErr # "None" =>
              (last.res = "Err" /\ last.err = last.firstErr /\ last.rec = NoRecord)
        /\ (last.preEnd >= 0 /\ last.rec.kind = "Unknown"
              /\ last.preEnd + last.rec.preamble.len > Cap) => last.res = "Err"

\* C4: when Record decode returns an Unknown record the position is exactly
\* preamble.len bytes beyond the end of the preamble.
C4_UnknownSkip ==
    (last.op = "dec" /\ last.res = "Ok" /\ last.rec.kind = "Unknown") =>
        pos = last.preEnd + last.rec.preamble.len

\* C5: Record decode of a name whose pointer chain revisits an offset ends
\* with an error and returns no Record.
C5_CycleFails ==
    (last.op = "dec" /\ ChainRevisits(bytes, last.pos0)) =>
        (last.res = "Err" /\ last.rec = NoRecord)

C5_Witness ==
    /\ last.op = "dec"
    /\ ChainRevisits(bytes, last.pos0)
    /\ bytes[last.pos0 + 1] >= 192
    /\ last.res = "Err"

C8_PosWithinCapacity ==
    /\ pos <= Len(bytes)
    /\ Len(bytes) = Cap

C8_Witness ==
    /\ last.op \in {"hdr", "dec", "write"}
    /\ last.res = "Err"
    /\ last.err = "OutOfBounds"
    /\ pos <= Cap
    /\ pos > 0

(***************************************************************************)
(* SpecRoundTrip: one Record::write of an address record into a zeroed     *)
(* buffer, at position 0 or after earlier decodes, and decodes of the      *)
(* result.                                                                 *)
(***************************************************************************)
NameChars == {97, 98, DOT}

Names == UNION { [1..n -> NameChars] : n \in 0..MaxNameLen }

Classes == {1, 3}

Ttls == { <<0, 300>>, <<65535, 65535>> }

DeclaredLens == {4, 0}

Addrs == { <<93, 184, 216, 34>>, <<0, 0, 0, 0>> }

AddressRecords ==
    { RecordA(APreamble(n, c, t, l), a) :
        n \in Names, c \in Classes, t \in Ttls, l \in DeclaredLens, a \in Addrs }

InitRoundTrip ==
    /\ bytes = Zeros
    /\ pos = 0
    /\ last = NoCall("init")
    /\ written = NoWritten
    /\ nwrites = 0
    /\ conv = NoConv

AddressWriteCall ==
    /\ nwrites = 0
    /\ \E r \in AddressRecords : DoWrite(r)

NextRoundTrip == HeaderDecode \/ RecordDecode \/ AddressWriteCall \/ NewBuffer

SpecRoundTrip == InitRoundTrip /\ [][NextRoundTrip]_vars

\* Every label of the name has between 1 and 63 bytes.
LabelsWellFormed(name) ==
    LET ls == SplitName(name, <<>>, <<>>) IN
    \A i \in 1..Len(ls) : Len(ls[i]) >= 1 /\ Len(ls[i]) <= 63

DecodedWritten ==
    /\ last.op = "dec"
    /\ written.valid
    /\ written.start = last.pos0

RoundTripHolds ==
    /\ last.res = "Ok"
    /\ last.rec.kind = "A"
    /\ last.rec.preamble.name = written.rec.preamble.name
    /\ last.rec.preamble.ttl = written.rec.preamble.ttl
    /\ last.rec.addr = written.rec.addr
    /\ last.rec.preamble.class = 1
    /\ last.rec.preamble.len = 4

\* C2 as stated: any address record written and decoded from where the write
\* started comes back with its name, TTL and address, class 1 and length 4.
C2_RoundTripAnyName == DecodedWritten => RoundTripHolds

\* C2 amended: the same for names whose labels all have 1 to 63 bytes.
C2_RoundTripLabels ==
    (DecodedWritten /\ LabelsWellFormed(written.rec.preamble.name)) => RoundTripHolds

C2_Witness ==
    /\ DecodedWritten
    /\ written.start > 0
    /\ written.rec.preamble.name = <<97, DOT, 98>>
    /\ written.rec.preamble.class = 3
    /\ written.rec.preamble.len = 0
    /\ last.res = "Ok"

(***************************************************************************)
(* SpecHeader: Header decode over every value of each status byte.         *)
(***************************************************************************)
StatusBytes == (U8 \X {0, 128}) \cup ({0, 129} \X U8)

HeaderBuffers ==
    { Pad(Bytes16(id) \o <<sb[1], sb[2]>> \o Bytes16(1) \o Bytes16(1)
            \o Bytes16(0) \o Bytes16(0)) :
        id \in {1, 65535}, sb \in StatusBytes }

InitHeader ==
    /\ bytes \in HeaderBuffers
    /\ pos = 0
    /\ last = NoCall("init")
    /\ written = NoWritten
    /\ nwrites = 0
    /\ conv = NoConv

NextHeader == HeaderDecode \/ NewBuffer

SpecHeader == InitHeader /\ [][NextHeader]_vars

HeaderDecoded == last.op = "hdr" /\ last.res = "Ok"

\* C9: from the first status byte b, is_response is bit 7, the opcode is
\* (b >> 3) mod 16, is_authoritative is bit 2, is_truncated is bit 1 and
\* recursion_desired is bit 0.
C9_FirstStatusByte ==
    HeaderDecoded =>
        LET b == bytes[3] IN
        /\ last.hdr.is_response = (Bit(b, 7) = 1)
        /\ last.hdr.op_code = (b \div 8) % 16
        /\ last.hdr.is_authoritative = (Bit(b, 2) = 1)
        /\ last.hdr.is_truncated = (Bit(b, 1) = 1)
        /\ last.hdr.recursion_desired = (Bit(b, 0) = 1)

\* C10: from the second status byte b, recursion_available is bit 7, z is
\* (b >> 4) mod 8 and the response code is built from b mod 16.
C10_SecondStatusByte ==
    HeaderDecoded =>
        LET b == bytes[4] IN
        /\ last.hdr.recursion_available = (Bit(b, 7) = 1)
        /\ last.hdr.z = (b \div 16) % 8
        /\ last.hdr.response_code = b % 16

(***************************************************************************)
(* SpecType: the RecordType conversions over every 16-bit code.            *)
(***************************************************************************)
U16 == 0..65535

KindInputs == {RecordTypeA, RecordTypeUnknown(0), RecordTypeUnknown(2),
               RecordTypeUnknown(65535)}

InitType ==
    /\ bytes = Zeros
    /\ pos = 0
    /\ last = NoCall("init")
    /\ written = NoWritten
    /\ nwrites = 0
    /\ conv \in { [NoConv EXCEPT !.stage = "u16", !.code = c] : c \in U16 }
                  \cup { [NoConv EXCEPT !.stage = "kind", !.rt = k] : k \in KindInputs }

\* RecordType::from(code)
ConvIntoType ==
    /\ \/ /\ conv.stage = "u16"
          /\ conv' = [conv EXCEPT !.stage = "u16-type",
                                  !.rt = RecordTypeFromU16(conv.code)]
       \/ /\ conv.stage = "kind-code"
          /\ conv' = [conv EXCEPT !.stage = "kind-done",
                                  !.rt2 = RecordTypeFromU16(conv.code)]
    /\ UNCHANGED <<bytes, pos, last, written, nwrites>>

\* u16::from(record_type)
ConvIntoU16 ==
    /\ \/ /\ conv.stage = "u16-type"
          /\ conv' = [conv EXCEPT !.stage = "u16-done",
                                  !.code2 = RecordTypeToU16(conv.rt)]
       \/ /\ conv.stage = "kind"
          /\ conv' = [conv EXCEPT !.stage = "kind-code",
                                  !.code = RecordTypeToU16(conv.rt)]
    /\ UNCHANGED <<bytes, pos, last, written, nwrites>>

NextType == ConvIntoType \/ ConvIntoU16

SpecType == InitType /\ [][NextType]_vars

\* C7: A goes to its code and back to A; every code other than a known
\* kind's goes to Unknown(code) and back to the code; so code -> RecordType
\* -> u16 is the identity on 16-bit codes.
C7_TypeRoundTrip ==
    /\ (conv.stage \in {"u16-type", "u16-done"} /\ conv.code # 1) =>
            conv.rt = RecordTypeUnknown(conv.code)
    /\ conv.stage = "u16-done" => conv.code2 = conv.code
    /\ (conv.stage = "kind-done" /\ conv.rt = RecordTypeA) =>
            (conv.code = 1 /\ conv.rt2 = RecordTypeA)

C7_Witness ==
    /\ conv.stage = "u16-done"
    /\ conv.code = 65535
    /\ conv.code2 = 65535

============================================================================
